---- MODULE Spec2Model ----
(***************************************************************************)
(* genpass: the password generator (src/src/generator.rs) and the random   *)
(* primitives it draws from (src/src/random.rs), as a state machine.       *)
(*                                                                         *)
(* Machine integers are scaled down, keeping their relation: usize is      *)
(* UsizeBits wide and u32 is U32Bits wide, with U32Bits < UsizeBits as on  *)
(* a 64-bit target, so that `max as u32` truncates and usize sums wrap     *)
(* exactly where the program's do.                                         *)
(***************************************************************************)
EXTENDS Integers, Sequences, FiniteSets, TLC

VARIABLES
    op,               \* the operation a behaviour exercises: "generate", "random_range", "shuffle"
    overflow_checks,  \* the build: "on" panics on integer overflow (debug), "off" wraps
                      \* (release), "unknown" while no operation has overflowed yet
    constraints,      \* the PasswordConstraints value handed to PasswordGenerator::new
    generator,        \* <<>> before construction, <<g>> once new returned Ok(g)
    pc,               \* the program point
    err,              \* the Err a call returned ("none" while there is none)
    length,           \* generate: the selected length
    numeric_count,    \* generate: working counts
    lower_count,
    upper_count,
    symbol_count,
    remaining,        \* generate: slots left to distribute
    cls,              \* generate: which of the four push loops runs (0..3)
    k,                \* generate: iterations of that loop done so far
    password,         \* generate: the Vec<char>; shuffle: the slice
    i,                \* shuffle: the loop index
    consulted,        \* fill_bytes was called during the current call
    arg,              \* random_range: its argument `max`
    value,            \* random_range: the last u32 drawn
    result,           \* random_range: the value returned
    input,            \* shuffle: the slice as it was handed in
    last,             \* generate: [length, kind] of the last call that ended
    calls,            \* generate: calls made on the generator so far
    parked,           \* generate: the locals of a second caller of the same generator
                      \* while the first one runs (its pc is "none" when there is one caller)
    cmdline,          \* main: the options the user gave on the command line
    cli,              \* main: the Cli struct clap parsed them into
    config,           \* main: the Config loaded from the profile, then merged
    count             \* main: the number of passwords to generate

vars == <<op, overflow_checks, constraints, generator, pc, err, length,
          numeric_count, lower_count, upper_count, symbol_count, remaining,
          cls, k, password, i, consulted, arg, value, result, input, last,
          calls, parked, cmdline, cli, config, count>>

----------------------------------------------------------------------------
(* Bounds of the model.                                                    *)

UsizeBits == 5
U32Bits == 3
MaxLen == 2
MaxCount == 1
MaxCalls == 2
MaxShuffle == 4

----------------------------------------------------------------------------
(* Machine integers.                                                       *)

USIZE_MAX == 2^UsizeBits - 1
MAX_U32 == 2^U32Bits - 1
ISIZE_MAX == 2^(UsizeBits - 1) - 1

Usize == 0..USIZE_MAX

\* The value a usize operation leaves when overflow checks are off.
Wrap(n) == (n + 2^UsizeBits) % 2^UsizeBits

Fits(n) == n \in Usize

\* `max as u32`: the low U32Bits bits.
AsU32(n) == n % 2^U32Bits

\* Option<usize>: <<>> is None, <<n>> is Some(n).
None == <<>>
Some(n) == <<n>>
IsSome(o) == Len(o) = 1
unwrap_or(o, d) == IF IsSome(o) THEN o[1] ELSE d

----------------------------------------------------------------------------
(* SecureRandom::fill_bytes and SecureRandom::random_range                 *)

\* The buffer random_range hands to fill_bytes: [0u8; 4].
BUF_LEN == 4

\* What the randomness source can do on one fill_bytes call: the open fails,
\* or the file opens and delivers `got` bytes before it ends or fails.
FillOutcomes ==
    {[opened |-> FALSE, got |-> 0]}
    \cup {[opened |-> TRUE, got |-> n] : n \in 0..BUF_LEN}

\* A short read is taken for a full one (`read` in place of `read_exact`).
fill_bytes_short_read(f) == IF f.opened THEN "ok" ELSE "io"

\* fill_bytes: File::open(..)? then read_exact(buf)?, which is Ok only when
\* the whole buffer was filled.
fill_bytes(f) == IF f.opened /\ f.got = BUF_LEN THEN "ok" ELSE "io"


\* No value is rejected: the plain `value % max`.
range_u32_accept_all(max) == MAX_U32 + 1

\* The largest multiple of max that fits in u32 (for the u32 value of max).
range_u32(max) == MAX_U32 - (MAX_U32 % max)

\* One pass through the loop body for a drawn value.
Draw(v, max) ==
    IF v < range_u32(max)
    THEN [kind |-> "ok", val |-> v % max, v |-> v, read |-> TRUE]
    ELSE [kind |-> "retry", val |-> 0, v |-> v, read |-> TRUE]

\* What one pass through random_range(max) can do: return early for max = 0,
\* divide by zero when the cast leaves 0, fail to read the source, or draw a
\* value and either return it reduced or go round the loop again.
RandomRangeStep(max) ==
    IF max = 0
    THEN {[kind |-> "ok", val |-> 0, v |-> 0, read |-> FALSE]}
    ELSE IF AsU32(max) = 0
    THEN {[kind |-> "panic", val |-> 0, v |-> 0, read |-> FALSE]}
    ELSE UNION {IF fill_bytes(f) = "ok"
                THEN {Draw(v, AsU32(max)) : v \in 0..MAX_U32}
                ELSE {[kind |-> "io", val |-> 0, v |-> 0, read |-> TRUE]} :
                f \in FillOutcomes}

----------------------------------------------------------------------------
(* Characters.  A char is a one-character string, a &str or Vec<char> a    *)
(* sequence of them.                                                       *)

LOWERCASE == <<"a","b","c","d","e","f","g","h","i","j","k","l","m",
               "n","o","p","q","r","s","t","u","v","w","x","y","z">>
UPPERCASE == <<"A","B","C","D","E","F","G","H","I","J","K","L","M",
               "N","O","P","Q","R","S","T","U","V","W","X","Y","Z">>
NUMERIC == <<"0","1","2","3","4","5","6","7","8","9">>

AMBIGUOUS_CHARS == {"0", "O", "1", "l", "I", "|"}

\* The characters the model keeps of each alphabet: per class one ordinary
\* character and one ambiguous one.
CharSample == {"a", "l", "A", "O", "1", "2", "!", "|"}

InSample(c) == c \in CharSample

\* s.chars(), over the sampled characters.
chars(s) == SelectSeq(s, InSample)

NotAmbiguous(c) == c \notin AMBIGUOUS_CHARS

\* The closure filter_ambiguous of PasswordGenerator::new.
filter_ambiguous(exclude_ambiguous, s) ==
    IF exclude_ambiguous THEN SelectSeq(chars(s), NotAmbiguous) ELSE chars(s)

Range(s) == {s[n] : n \in DOMAIN s}

----------------------------------------------------------------------------
(* PasswordConstraints                                                     *)

Constraints(mins, maxs, min_length, max_length, symbols, exclude_ambiguous) ==
    [min_numeric |-> mins[1], max_numeric |-> maxs[1],
     min_lower |-> mins[2], max_lower |-> maxs[2],
     min_upper |-> mins[3], max_upper |-> maxs[3],
     min_symbol |-> mins[4], max_symbol |-> maxs[4],
     min_length |-> min_length, max_length |-> max_length,
     symbols |-> symbols, exclude_ambiguous |-> exclude_ambiguous]

\* min > max for a pair of options, when both are given.
MinAboveMax(min, max) == IsSome(min) /\ IsSome(max) /\ min[1] > max[1]

\* The sum of the four minimums as the mathematical integer.
TrueTotalMin(c) ==
    unwrap_or(c.min_numeric, 0) + unwrap_or(c.min_lower, 0)
        + unwrap_or(c.min_upper, 0) + unwrap_or(c.min_symbol, 0)

\* total_min as the machine computes it with overflow checks off.
total_min(c) ==
    Wrap(Wrap(Wrap(unwrap_or(c.min_numeric, 0) + unwrap_or(c.min_lower, 0))
                 + unwrap_or(c.min_upper, 0)) + unwrap_or(c.min_symbol, 0))

\* The checks of validate() that precede the sum.
PairAndLengthError(c) ==
    IF MinAboveMax(c.min_numeric, c.max_numeric)
    THEN "min_numeric cannot be greater than max_numeric"
    ELSE IF MinAboveMax(c.min_lower, c.max_lower)
    THEN "min_lower cannot be greater than max_lower"
    ELSE IF MinAboveMax(c.min_upper, c.max_upper)
    THEN "min_upper cannot be greater than max_upper"
    ELSE IF MinAboveMax(c.min_symbol, c.max_symbol)
    THEN "min_symbol cannot be greater than max_symbol"
    ELSE IF c.min_length > c.max_length
    THEN "min_length cannot be greater than max_length"
    ELSE "ok"

\* The sum of the minimums is compared with max_length only.
validate_max_length_only(c, checks) ==
    IF PairAndLengthError(c) # "ok" THEN PairAndLengthError(c)
    ELSE IF checks = "on" /\ ~Fits(TrueTotalMin(c)) THEN "panic: attempt to add with overflow"
    ELSE IF total_min(c) > c.max_length
    THEN "Sum of minimum character requirements exceeds maximum length"
    ELSE "ok"

\* validate(): "ok", the error message, or a panic when the sum overflows
\* in a build with overflow checks.
validate(c, checks) ==
    IF PairAndLengthError(c) # "ok" THEN PairAndLengthError(c)
    ELSE IF checks = "on" /\ ~Fits(TrueTotalMin(c)) THEN "panic: attempt to add with overflow"
    ELSE IF total_min(c) > c.max_length
    THEN "Sum of minimum character requirements exceeds maximum length"
    ELSE IF total_min(c) > c.min_length
    THEN "Sum of minimum character requirements exceeds minimum length"
    ELSE "ok"

\* The messages of the io::Error values generate() builds itself, as their
\* words in lower case.
Words(e) ==
    CASE e = "Cannot satisfy length requirement with given max constraints" ->
            {"cannot", "satisfy", "length", "requirement", "with", "given", "max",
             "constraints"}
      [] e = "Character set is empty" -> {"character", "set", "is", "empty"}
      [] OTHER -> {}

IsPanic(e) == e \in {"panic: attempt to add with overflow",
                     "panic: attempt to subtract with overflow",
                     "panic: attempt to calculate the remainder with a divisor of zero",
                     "panic: capacity overflow"}

----------------------------------------------------------------------------
(* The inputs the model draws.                                             *)

AllNone == <<None, None, None, None>>
Single(t, o) == [n \in 1..4 |-> IF n = t THEN o ELSE None]
Uniform(o) == [n \in 1..4 |-> o]

MinVectors ==
    {AllNone} \cup {Uniform(Some(n)) : n \in 1..MaxCount}
              \cup {Single(t, Some(n)) : t \in 1..4, n \in 1..MaxCount}

MaxVectors ==
    {AllNone} \cup {Uniform(Some(n)) : n \in 0..MaxCount}
              \cup {Single(t, Some(n)) : t \in 1..4, n \in 0..MaxCount}

SymbolChoices == {<<"!", "|">>, <<"1">>, <<>>}

\* A symbol set of n characters: one "!", then "|" repeated.
LongSymbols(n) == [m \in 1..n |-> IF m = 1 THEN "!" ELSE "|"]

\* Small counts and lengths, every combination.
SmallConstraints ==
    {Constraints(mins, maxs, lo, hi, symbols, ex) :
        mins \in MinVectors, maxs \in MaxVectors,
        lo \in 0..MaxLen, hi \in 0..MaxLen,
        symbols \in SymbolChoices, ex \in BOOLEAN}

\* Values at the edges of the machine integers: minimums whose sum passes
\* USIZE_MAX (with a symbol set, with a required symbol and none to draw
\* from, and with a maximum on every class), and length ranges and symbol sets at and past the u32 range.
WideConstraints ==
    {Constraints(<<Some(USIZE_MAX), Some(1), None, None>>, AllNone, lo, lo,
                 <<"!", "|">>, FALSE) : lo \in 0..1}
    \cup {Constraints(<<Some(USIZE_MAX), None, None, Some(1)>>, AllNone, 0, 0,
                      <<>>, FALSE)}
    \cup {Constraints(<<Some(USIZE_MAX), Some(1), None, None>>,
                      <<Some(USIZE_MAX), Some(1), Some(0), Some(0)>>, 1, 1,
                      <<"!", "|">>, FALSE)}
    \cup {Constraints(AllNone, AllNone, 1, 1, LongSymbols(n), FALSE) :
            n \in {MAX_U32 + 1, MAX_U32 + 2}}
    \cup {Constraints(AllNone, AllNone, 0, hi, <<"!", "|">>, FALSE) :
            hi \in {MAX_U32, MAX_U32 + 1, MAX_U32 + 2, USIZE_MAX}}

\* The constraints of the runs that call generate() more than once: no
\* class bounds, or one maximum on every class.
CallsConstraints ==
    {c \in SmallConstraints :
        /\ <<c.min_numeric, c.min_lower, c.min_upper, c.min_symbol>> = AllNone
        /\ \E o \in {None} \cup {Some(n) : n \in 0..MaxCount} :
              <<c.max_numeric, c.max_lower, c.max_upper, c.max_symbol>> = Uniform(o)}

\* The constraints of the runs with two callers: a drawn length of one or
\* two characters, no class bounds or one character of each class at most.
SharedConstraints ==
    {Constraints(AllNone, maxs, 1, 2, symbols, TRUE) :
        maxs \in {AllNone, Uniform(Some(1))},
        symbols \in {<<"!", "|">>, <<"|">>}}

ShuffleInputs ==
    {SubSeq(LOWERCASE, 1, n) : n \in (0..MaxShuffle) \cup {MAX_U32 + 1, MAX_U32 + 2}}
    \cup {<<"a", "a">>, <<"a", "b", "a">>}

NoLast == [length |-> 0, kind |-> "none"]

----------------------------------------------------------------------------
(* Frames.                                                                 *)

\* What main holds before it builds the constraints.
cliVars == <<cmdline, cli, config, count>>

\* What no step of a call touches: the operation exercised, the value handed
\* to new, the locals of the caller that is not running, and main's own.
buildVars == <<op, constraints, parked, cliVars>>
rangeVars == <<arg, value, result>>
countVars == <<numeric_count, lower_count, upper_count, symbol_count>>

\* The locals of generate() are dropped when the call ends.
DropLocals ==
    /\ length' = 0
    /\ numeric_count' = 0 /\ lower_count' = 0
    /\ upper_count' = 0 /\ symbol_count' = 0
    /\ remaining' = 0 /\ cls' = 0 /\ k' = 0 /\ i' = 0

\* The call in progress returns Err(e); a slice being shuffled in place
\* stays as the swaps so far left it.
Fail(e) ==
    /\ pc' = "failed"
    /\ err' = e
    /\ last' = [length |-> length, kind |-> e]
    /\ password' = IF op = "generate" THEN <<>> ELSE password
    /\ DropLocals
    /\ UNCHANGED <<buildVars, generator, rangeVars, input, calls>>

\* The thread panics with message e.
Panic(e) ==
    /\ pc' = "panic"
    /\ err' = e
    /\ password' = IF op = "generate" THEN <<>> ELSE password
    /\ DropLocals
    /\ UNCHANGED <<buildVars, generator, rangeVars, input, last, calls>>

\* A drawn value was rejected: the loop of random_range goes round again.
Retry ==
    /\ consulted' = TRUE
    /\ UNCHANGED <<buildVars, generator, pc, err, length, countVars, remaining,
                   cls, k, password, i, rangeVars, input, last, calls>>

\* What a call of random_range does to the caller when it does not return
\* a value.
NoValue(o) ==
    CASE o.kind = "retry" -> Retry
      [] o.kind = "io" -> Fail("io") /\ consulted' = TRUE
      [] o.kind = "panic" ->
            Panic("panic: attempt to calculate the remainder with a divisor of zero")
            /\ UNCHANGED consulted

----------------------------------------------------------------------------
(* The build.  Whether integer overflow panics or wraps is fixed when the  *)
(* program is compiled; until an operation overflows the two builds behave *)
(* alike, so the model decides the build at the first overflow and keeps   *)
(* it from then on.                                                        *)

Builds == IF overflow_checks = "unknown" THEN {"on", "off"} ELSE {overflow_checks}

\* The builds a step is taken under, given whether it overflows.
Build(overflows) == IF overflows THEN Builds ELSE {overflow_checks}

----------------------------------------------------------------------------
(* PasswordGenerator::new                                                  *)

\* The symbol set is taken as given, unfiltered.
NewGeneratorSymbolsUnfiltered(c) ==
    [constraints |-> c,
     lowercase_chars |-> filter_ambiguous(c.exclude_ambiguous, LOWERCASE),
     uppercase_chars |-> filter_ambiguous(c.exclude_ambiguous, UPPERCASE),
     numeric_chars |-> filter_ambiguous(c.exclude_ambiguous, NUMERIC),
     symbol_chars |-> chars(c.symbols)]

\* The generator new builds once validate() returned Ok: the constraints and
\* the four filtered alphabets.
NewGenerator(c) ==
    [constraints |-> c,
     lowercase_chars |-> filter_ambiguous(c.exclude_ambiguous, LOWERCASE),
     uppercase_chars |-> filter_ambiguous(c.exclude_ambiguous, UPPERCASE),
     numeric_chars |-> filter_ambiguous(c.exclude_ambiguous, NUMERIC),
     symbol_chars |-> filter_ambiguous(c.exclude_ambiguous, c.symbols)]

New ==
    /\ op = "generate"
    /\ pc = "new"
    /\ \E b \in Build(PairAndLengthError(constraints) = "ok"
                        /\ ~Fits(TrueTotalMin(constraints))) :
          /\ overflow_checks' = b
          /\ IF validate(constraints, b) = "ok"
             THEN /\ generator' = <<NewGenerator(constraints)>>
                  /\ pc' = "ready"
                  /\ UNCHANGED err
             ELSE /\ pc' = IF IsPanic(validate(constraints, b))
                           THEN "panic" ELSE "rejected"
                  /\ err' = validate(constraints, b)
                  /\ UNCHANGED generator
    /\ UNCHANGED <<buildVars, length, countVars, remaining, cls, k, password, i,
                   consulted, rangeVars, input, last, calls>>

----------------------------------------------------------------------------
(* PasswordGenerator::generate                                             *)

\* The largest Vec<char>: a Vec's buffer holds at most isize::MAX bytes and
\* a char takes 4, so a push past it panics with "capacity overflow".
VEC_MAX_LEN == ISIZE_MAX \div 4

TheConstraints == generator[1].constraints

\* A caller invokes generate() on the constructed generator.
Generate ==
    /\ op = "generate"
    /\ pc = "ready"
    /\ calls < MaxCalls
    /\ calls' = calls + 1
    /\ pc' = "length"
    /\ consulted' = FALSE
    /\ UNCHANGED <<buildVars, overflow_checks, generator, err, length, countVars,
                   remaining, cls, k, password, i, rangeVars, input, last>>

\* The length once decided (lines 124-129).
LengthIs(n) ==
    /\ length' = n
    /\ pc' = "base"
    /\ UNCHANGED <<buildVars, generator, err, countVars, remaining, cls, k,
                   password, i, rangeVars, input, last, calls>>

\* The width of the length range taken one too large.
length_range_one_more(c) == c.max_length - c.min_length + 2

\* `range` of line 127, as the mathematical integer.
length_range(c) == c.max_length - c.min_length + 1

SelectLength ==
    /\ pc = "length"
    /\ LET c == TheConstraints
           range == length_range(c)
       IN IF c.min_length = c.max_length
          THEN LengthIs(c.min_length) /\ UNCHANGED <<consulted, overflow_checks>>
          ELSE \E b \in Build(~Fits(range)) :
                /\ overflow_checks' = b
                /\ IF b = "on" /\ ~Fits(range)
                   THEN Panic("panic: attempt to add with overflow")
                        /\ UNCHANGED consulted
                   ELSE \E o \in RandomRangeStep(Wrap(range)) :
                           IF o.kind = "ok"
                           THEN /\ LengthIs(c.min_length + o.val)
                                /\ consulted' = (consulted \/ o.read)
                           ELSE NoValue(o)

\* Lines 131-139: the working counts start at the minimums.
BaseCounts ==
    /\ pc = "base"
    /\ LET c == TheConstraints
           total == TrueTotalMin(c)
       IN \E b \in Build(~Fits(total) \/ length < total_min(c)) :
             /\ overflow_checks' = b
             /\ IF b = "on" /\ ~Fits(total)
                THEN Panic("panic: attempt to add with overflow")
                ELSE IF b = "on" /\ length < total_min(c)
                THEN Panic("panic: attempt to subtract with overflow")
                ELSE /\ numeric_count' = unwrap_or(c.min_numeric, 0)
                     /\ lower_count' = unwrap_or(c.min_lower, 0)
                     /\ upper_count' = unwrap_or(c.min_upper, 0)
                     /\ symbol_count' = unwrap_or(c.min_symbol, 0)
                     /\ remaining' = Wrap(length - total_min(c))
                     /\ pc' = "slots"
                     /\ UNCHANGED <<buildVars, generator, err, length, cls, k,
                                    password, i, rangeVars, input, last, calls>>
    /\ UNCHANGED consulted

\* max.map_or(true, |max| count < max)
CanAccept(max, working) == IsSome(max) => working < max[1]

\* The class indices pushed onto available_types, in the order pushed.
available_types ==
    LET c == TheConstraints IN
    (IF CanAccept(c.max_numeric, numeric_count) THEN <<0>> ELSE <<>>)
    \o (IF CanAccept(c.max_lower, lower_count) THEN <<1>> ELSE <<>>)
    \o (IF CanAccept(c.max_upper, upper_count) THEN <<2>> ELSE <<>>)
    \o (IF CanAccept(c.max_symbol, symbol_count) THEN <<3>> ELSE <<>>)

\* `count += 1` for the class of index t, and `remaining -= 1`.
Increment(t) ==
    /\ numeric_count' = IF t = 0 THEN Wrap(numeric_count + 1) ELSE numeric_count
    /\ lower_count' = IF t = 1 THEN Wrap(lower_count + 1) ELSE lower_count
    /\ upper_count' = IF t = 2 THEN Wrap(upper_count + 1) ELSE upper_count
    /\ symbol_count' = IF t = 3 THEN Wrap(symbol_count + 1) ELSE symbol_count
    /\ remaining' = remaining - 1
    /\ UNCHANGED <<buildVars, generator, pc, err, length, cls, k, password, i,
                   rangeVars, input, last, calls>>

CountOf(t) ==
    CASE t = 0 -> numeric_count
      [] t = 1 -> lower_count
      [] t = 2 -> upper_count
      [] t = 3 -> symbol_count

\* One test of `while remaining > 0` and, when it holds, one iteration.
Distribute ==
    /\ pc = "slots"
    /\ IF remaining = 0
       THEN /\ pc' = "chars"
            /\ cls' = 0
            /\ k' = 0
            /\ UNCHANGED <<buildVars, overflow_checks, generator, err, length,
                           countVars, remaining, password, i, consulted, rangeVars,
                           input, last, calls>>
       ELSE IF available_types = <<>>
       THEN Fail("Cannot satisfy length requirement with given max constraints")
            /\ UNCHANGED <<consulted, overflow_checks>>
       ELSE \E o \in RandomRangeStep(Len(available_types)) :
               IF o.kind = "ok"
               THEN LET t == available_types[o.val + 1] IN
                    \E b \in Build(~Fits(CountOf(t) + 1)) :
                       /\ overflow_checks' = b
                       /\ consulted' = (consulted \/ o.read)
                       /\ IF b = "on" /\ ~Fits(CountOf(t) + 1)
                          THEN Panic("panic: attempt to add with overflow")
                          ELSE Increment(t)
               ELSE NoValue(o) /\ UNCHANGED overflow_checks

\* The alphabet the push loop of index t draws from.
CharsOf(t) ==
    CASE t = 0 -> generator[1].numeric_chars
      [] t = 1 -> generator[1].lowercase_chars
      [] t = 2 -> generator[1].uppercase_chars
      [] t = 3 -> generator[1].symbol_chars

\* The character pushed is taken out of the generator's alphabets.
PushTaken(c) ==
    LET Others(x) == x # c IN
    IF Len(password) >= VEC_MAX_LEN
    THEN Panic("panic: capacity overflow")
    ELSE /\ password' = Append(password, c)
         /\ k' = k + 1
         /\ generator' =
               <<[generator[1] EXCEPT
                    !.numeric_chars = SelectSeq(@, Others),
                    !.lowercase_chars = SelectSeq(@, Others),
                    !.uppercase_chars = SelectSeq(@, Others),
                    !.symbol_chars = SelectSeq(@, Others)]>>
         /\ UNCHANGED <<buildVars, pc, err, length, countVars,
                        remaining, cls, i, rangeVars, input, last, calls>>

\* password.push(c)
Push(c) ==
    IF Len(password) >= VEC_MAX_LEN
    THEN Panic("panic: capacity overflow")
    ELSE /\ password' = Append(password, c)
         /\ k' = k + 1
         /\ UNCHANGED <<buildVars, generator, pc, err, length, countVars,
                        remaining, cls, i, rangeVars, input, last, calls>>

\* Lines 178-193: the four loops `for _ in 0..count`, in the order numeric,
\* lower, upper, symbol; each iteration is one pick_random and one push.
PushChars ==
    /\ pc = "chars"
    /\ UNCHANGED overflow_checks
    /\ IF cls > 3
       THEN /\ pc' = "shuffle"
            /\ i' = Len(password) - 1
            /\ UNCHANGED <<buildVars, generator, err, length, countVars, remaining,
                           cls, k, password, consulted, rangeVars, input, last,
                           calls>>
       ELSE IF k >= CountOf(cls)
       THEN /\ cls' = cls + 1
            /\ k' = 0
            /\ UNCHANGED <<buildVars, generator, pc, err, length, countVars,
                           remaining, password, i, consulted, rangeVars, input,
                           last, calls>>
       ELSE IF CharsOf(cls) = <<>>
       THEN Fail("Character set is empty") /\ UNCHANGED consulted
       ELSE \E o \in RandomRangeStep(Len(CharsOf(cls))) :
               IF o.kind = "ok"
               THEN Push(CharsOf(cls)[o.val + 1]) /\ consulted' = (consulted \/ o.read)
               ELSE NoValue(o)

----------------------------------------------------------------------------
(* SecureRandom::shuffle                                                   *)

\* Position a takes the element of b, and b keeps its own.
swap_overwrite(s, a, b) == [s EXCEPT ![a + 1] = s[b + 1]]

\* slice.swap(a, b), indices from 0.
swap(s, a, b) ==
    [n \in DOMAIN s |-> IF n = a + 1 THEN s[b + 1] ELSE IF n = b + 1 THEN s[a + 1] ELSE s[n]]

\* The bound of the draw made at index n of the loop.
ShuffleBound(n) == n + 1

\* One step of `for i in (1..len).rev()`; when the loop is over shuffle
\* returns Ok and, in generate, the password is collected and returned.
ShuffleStep ==
    /\ pc = "shuffle"
    /\ UNCHANGED overflow_checks
    /\ IF i < 1
       THEN /\ pc' = "done"
            /\ last' = [length |-> length, kind |-> "ok"]
            /\ DropLocals
            /\ UNCHANGED <<buildVars, generator, err, password, consulted,
                           rangeVars, input, calls>>
       ELSE \E o \in RandomRangeStep(ShuffleBound(i)) :
               IF o.kind = "ok"
               THEN /\ password' = swap(password, i, o.val)
                    /\ i' = i - 1
                    /\ consulted' = (consulted \/ o.read)
                    /\ UNCHANGED <<buildVars, generator, pc, err, length, countVars,
                                   remaining, cls, k, rangeVars, input, last, calls>>
               ELSE NoValue(o)

\* The caller takes the result; the generator is ready for the next call.
GenerateReturn ==
    /\ op = "generate"
    /\ pc \in {"done", "failed"}
    /\ pc' = "ready"
    /\ err' = "none"
    /\ password' = <<>>
    /\ UNCHANGED <<buildVars, overflow_checks, generator, length, countVars,
                   remaining, cls, k, i, consulted, rangeVars, input, last, calls>>

----------------------------------------------------------------------------
(* A call of random_range(arg) on its own.                                 *)

RandomRange ==
    /\ op = "random_range"
    /\ pc = "random_range"
    /\ \E o \in RandomRangeStep(arg) :
          /\ value' = o.v
          /\ consulted' = (consulted \/ o.read)
          /\ pc' = CASE o.kind = "ok" -> "done"
                     [] o.kind = "retry" -> "random_range"
                     [] o.kind = "io" -> "failed"
                     [] o.kind = "panic" -> "panic"
          /\ result' = IF o.kind = "ok" THEN o.val ELSE result
          /\ err' = CASE o.kind = "io" -> "io"
                      [] o.kind = "panic" ->
                            "panic: attempt to calculate the remainder with a divisor of zero"
                      [] OTHER -> err
    /\ UNCHANGED <<buildVars, overflow_checks, generator, length, countVars,
                   remaining, cls, k, password, i, arg, input, last, calls>>

----------------------------------------------------------------------------
(* main: the command line, the profile, and the constraints built from     *)
(* them.                                                                   *)

\* The default of --symbols, the value main falls back to as well.
DEFAULT_SYMBOLS ==
    <<"!", "@", "#", "$", "%", "^", "&", "*", "(", ")", "_", "+", "-", "=", "[",
      "]", "{", "}", "|", ";", ":", ",", ".", "<", ">", "?">>

\* The default of --count, and of the count when the config has none.
DEFAULT_COUNT == 1

\* The minimum length when neither the command line nor the profile gives one.
DEFAULT_MIN_LENGTH == 16

\* The fields Config and the command line have in common; every one is an
\* Option(<<>> for None).
Options(mins, maxs, len, min_length, max_length, symbols, exclude_ambiguous, n) ==
    [min_numeric |-> mins[1], max_numeric |-> maxs[1],
     min_lower |-> mins[2], max_lower |-> maxs[2],
     min_upper |-> mins[3], max_upper |-> maxs[3],
     min_symbol |-> mins[4], max_symbol |-> maxs[4],
     length |-> len, min_length |-> min_length, max_length |-> max_length,
     symbols |-> symbols, exclude_ambiguous |-> exclude_ambiguous, count |-> n]

\* Config::default()
DefaultConfig == Options(AllNone, AllNone, None, None, None, None, None, None)

\* Cli::parse(): an absent --symbols or --count takes its default_value, and
\* --exclude-ambiguous is a flag.
ParseCli(given) ==
    [given EXCEPT !.symbols = unwrap_or(given.symbols, DEFAULT_SYMBOLS),
                  !.exclude_ambiguous = IsSome(given.exclude_ambiguous),
                  !.count = unwrap_or(given.count, DEFAULT_COUNT)]

\* `if cli.x.is_some() { self.x = cli.x }`
Override(mine, theirs) == IF IsSome(theirs) THEN theirs ELSE mine

\* Config::merge_with_cli
merge_with_cli(self, c) ==
    [min_numeric |-> Override(self.min_numeric, c.min_numeric),
     max_numeric |-> Override(self.max_numeric, c.max_numeric),
     min_lower |-> Override(self.min_lower, c.min_lower),
     max_lower |-> Override(self.max_lower, c.max_lower),
     min_upper |-> Override(self.min_upper, c.min_upper),
     max_upper |-> Override(self.max_upper, c.max_upper),
     min_symbol |-> Override(self.min_symbol, c.min_symbol),
     max_symbol |-> Override(self.max_symbol, c.max_symbol),
     length |-> Override(self.length, c.length),
     min_length |-> Override(self.min_length, c.min_length),
     max_length |-> Override(self.max_length, c.max_length),
     symbols |-> IF c.symbols # DEFAULT_SYMBOLS THEN Some(c.symbols)
                 ELSE IF self.symbols = None THEN Some(c.symbols)
                 ELSE self.symbols,
     exclude_ambiguous |-> IF c.exclude_ambiguous THEN Some(TRUE)
                           ELSE self.exclude_ambiguous,
     count |-> IF c.count # DEFAULT_COUNT THEN Some(c.count)
               ELSE IF self.count = None THEN Some(DEFAULT_COUNT)
               ELSE self.count]

\* main, lines 140-147: the length bounds of the constraints.
ResolveMinLength(cfg) ==
    IF IsSome(cfg.length) THEN cfg.length[1]
    ELSE unwrap_or(cfg.min_length, DEFAULT_MIN_LENGTH)

ResolveMaxLength(cfg) ==
    IF IsSome(cfg.length) THEN cfg.length[1]
    ELSE unwrap_or(cfg.max_length, ResolveMinLength(cfg))

\* main, lines 150-163: the PasswordConstraints built from the config.
BuildConstraints(cfg) ==
    Constraints(<<cfg.min_numeric, cfg.min_lower, cfg.min_upper, cfg.min_symbol>>,
                <<cfg.max_numeric, cfg.max_lower, cfg.max_upper, cfg.max_symbol>>,
                ResolveMinLength(cfg), ResolveMaxLength(cfg),
                unwrap_or(cfg.symbols, DEFAULT_SYMBOLS),
                unwrap_or(cfg.exclude_ambiguous, FALSE))

\* The command lines drawn: class bounds given or not, the three ways to
\* give a length (-l excludes the other two), the symbols absent, given as
\* the default string or as another, the flag, and the count absent, 1 or 3.
CommandLines ==
    {Options(cl[1], cl[2], ln[1], ln[2], ln[3], symbols, ex, n) :
        cl \in {<<AllNone, AllNone>>, <<Uniform(Some(1)), Uniform(Some(2))>>},
        ln \in {<<None, None, None>>, <<Some(8), None, None>>,
                <<None, Some(8), Some(12)>>, <<None, Some(8), None>>,
                <<None, None, Some(12)>>},
        symbols \in {None, Some(DEFAULT_SYMBOLS), Some(<<"#">>)},
        ex \in {None, Some(TRUE)},
        n \in {None, Some(DEFAULT_COUNT), Some(3)}}

\* The profiles drawn: what Config::parse can return.
Profiles ==
    {Options(cl[1], cl[2], ln[1], ln[2], ln[3], symbols, ex, n) :
        cl \in {<<AllNone, AllNone>>, <<Uniform(Some(4)), Uniform(Some(5))>>},
        ln \in {<<None, None, None>>, <<Some(20), None, None>>,
                <<None, Some(10), Some(30)>>},
        symbols \in {None, Some(<<"*">>)},
        ex \in {None, Some(TRUE), Some(FALSE)},
        n \in {None, Some(5)}}

\* main is not part of the run.
NoCli ==
    /\ cmdline = DefaultConfig
    /\ cli = DefaultConfig
    /\ config = DefaultConfig
    /\ count = 0

mainVars == <<overflow_checks, generator, err, length, countVars, remaining, cls, k,
              password, i, consulted, rangeVars, input, last, calls, parked>>

\* let cli = Cli::parse();
Parse ==
    /\ op = "main" /\ pc = "parse"
    /\ cli' = ParseCli(cmdline)
    /\ pc' = "merge"
    /\ UNCHANGED <<op, cmdline, config, count, constraints, mainVars>>

\* config.merge_with_cli(&cli);
Merge ==
    /\ op = "main" /\ pc = "merge"
    /\ config' = merge_with_cli(config, cli)
    /\ pc' = "build"
    /\ UNCHANGED <<op, cmdline, cli, count, constraints, mainVars>>

\* The constraints handed to PasswordGenerator::new, and the count of the
\* generation loop.
BuildFromConfig ==
    /\ op = "main" /\ pc = "build"
    /\ constraints' = BuildConstraints(config)
    /\ count' = unwrap_or(config.count, DEFAULT_COUNT)
    /\ pc' = "built"
    /\ UNCHANGED <<op, cmdline, cli, config, mainVars>>

----------------------------------------------------------------------------
(* Specifications.                                                         *)

\* The locals of a call of generate(), as one value.
Locals ==
    [pc |-> pc, err |-> err, length |-> length,
     numeric_count |-> numeric_count, lower_count |-> lower_count,
     upper_count |-> upper_count, symbol_count |-> symbol_count,
     remaining |-> remaining, cls |-> cls, k |-> k, password |-> password,
     i |-> i, consulted |-> consulted]

\* A caller that holds the generator and has not called generate() yet.
FreshCaller ==
    [pc |-> "ready", err |-> "none", length |-> 0,
     numeric_count |-> 0, lower_count |-> 0, upper_count |-> 0, symbol_count |-> 0,
     remaining |-> 0, cls |-> 0, k |-> 0, password |-> <<>>, i |-> 0,
     consulted |-> FALSE]

\* There is one caller only.
NoCaller == [FreshCaller EXCEPT !.pc = "none"]

Idle ==
    /\ generator = <<>>
    /\ err = "none"
    /\ length = 0
    /\ numeric_count = 0 /\ lower_count = 0 /\ upper_count = 0 /\ symbol_count = 0
    /\ remaining = 0 /\ cls = 0 /\ k = 0
    /\ consulted = FALSE
    /\ value = 0 /\ result = 0
    /\ last = NoLast
    /\ calls = 0

NoConstraints == Constraints(AllNone, AllNone, 0, 0, <<>>, FALSE)

\* generate(): a build, a constraints value, and calls on what new returns.
Init ==
    /\ op = "generate"
    /\ overflow_checks = "unknown"
    /\ constraints \in SmallConstraints \cup WideConstraints
    /\ pc = "new"
    /\ password = <<>> /\ input = <<>> /\ i = 0 /\ arg = 0
    /\ parked = NoCaller
    /\ NoCli
    /\ Idle

\* Two callers share the generator (&self): the scheduler stops the running
\* one at any step of its call and runs the other.
Switch ==
    /\ op = "generate"
    /\ generator # <<>>
    /\ parked.pc # "none"
    /\ parked' = Locals
    /\ pc' = parked.pc /\ err' = parked.err /\ length' = parked.length
    /\ numeric_count' = parked.numeric_count /\ lower_count' = parked.lower_count
    /\ upper_count' = parked.upper_count /\ symbol_count' = parked.symbol_count
    /\ remaining' = parked.remaining /\ cls' = parked.cls /\ k' = parked.k
    /\ password' = parked.password /\ i' = parked.i
    /\ consulted' = parked.consulted
    /\ UNCHANGED <<op, constraints, cliVars, overflow_checks, generator, rangeVars,
                   input, last, calls>>

\* One call of generate() on the generator new returned.
Next == New \/ Generate \/ SelectLength \/ BaseCounts \/ Distribute
          \/ PushChars \/ ShuffleStep

Spec == Init /\ [][Next]_vars

\* The same with a randomness source whose reads return and that is fair. A
\* rejected draw leaves the loop of random_range where it was, so a source
\* that never ends a loop shows as the call standing still for ever; weak
\* fairness of the call's steps excludes exactly that: a call that can take a
\* step that moves it on eventually takes one.
SpecFair == Init /\ [][Next]_vars /\ WF_vars(Next)

\* Calls one after the other on one generator.
InitCalls ==
    /\ Init
    /\ constraints \in CallsConstraints

NextCalls == Next \/ GenerateReturn

SpecCalls == InitCalls /\ [][NextCalls]_vars

\* Two callers of one generator, their calls interleaved step by step.
InitShared ==
    /\ op = "generate"
    /\ overflow_checks = "unknown"
    /\ constraints \in SharedConstraints
    /\ pc = "new"
    /\ password = <<>> /\ input = <<>> /\ i = 0 /\ arg = 0
    /\ parked = FreshCaller
    /\ NoCli
    /\ Idle

NextShared == Next \/ GenerateReturn \/ Switch

SpecShared == InitShared /\ [][NextShared]_vars

\* random_range(arg) for every usize argument.
InitRange ==
    /\ op = "random_range"
    /\ overflow_checks = "unknown"
    /\ constraints = NoConstraints
    /\ pc = "random_range"
    /\ arg \in Usize
    /\ password = <<>> /\ input = <<>> /\ i = 0
    /\ parked = NoCaller
    /\ NoCli
    /\ Idle

SpecRange == InitRange /\ [][RandomRange]_vars

\* shuffle(slice) on slices of several lengths.
InitShuffle ==
    /\ op = "shuffle"
    /\ overflow_checks = "unknown"
    /\ constraints = NoConstraints
    /\ pc = "shuffle"
    /\ password \in ShuffleInputs
    /\ input = password
    /\ i = Len(password) - 1
    /\ arg = 0
    /\ parked = NoCaller
    /\ NoCli
    /\ Idle

SpecShuffle == InitShuffle /\ [][ShuffleStep]_vars

\* main from the parsed command line to the constraints, for a command line
\* and a loaded profile (the default one when the file is missing or
\* unreadable).
InitCli ==
    /\ op = "main"
    /\ overflow_checks = "unknown"
    /\ constraints = NoConstraints
    /\ pc = "parse"
    /\ password = <<>> /\ input = <<>> /\ i = 0 /\ arg = 0
    /\ parked = NoCaller
    /\ cmdline \in CommandLines
    /\ cli = DefaultConfig
    /\ config \in Profiles
    /\ count = 0
    /\ Idle

NextCli == Parse \/ Merge \/ BuildFromConfig

SpecCli == InitCli /\ [][NextCli]_vars

----------------------------------------------------------------------------
(* Properties.                                                             *)

\* generate() returned Ok(password).
Returned == op = "generate" /\ pc = "done"

Constructed == generator # <<>>

\* The number of characters of s that satisfy a test, as the tests count.
CountChars(s, set) == Cardinality({n \in DOMAIN s : s[n] \in set})

\* lo <= n <= hi, an absent bound leaving its side open.
WithinBounds(n, lo, hi) ==
    /\ IsSome(lo) => lo[1] <= n
    /\ IsSome(hi) => n <= hi[1]

\* C1: a password returned by generate() has min_length <= L <= max_length
\* characters (so L is that value exactly when the two are equal).
C1_LengthWithinBounds ==
    Returned =>
        /\ TheConstraints.min_length <= Len(password)
        /\ Len(password) <= TheConstraints.max_length

\* A password of max_length characters was returned where the length is drawn.
C1_Witness ==
    /\ Returned
    /\ TheConstraints.min_length < TheConstraints.max_length
    /\ Len(password) = TheConstraints.max_length
    /\ consulted

\* C2: in a returned password the characters of each class, counted on the
\* string, number at least the class's minimum and at most its maximum.
C2_ClassCountsWithinBounds ==
    Returned =>
        LET c == TheConstraints IN
        /\ WithinBounds(CountChars(password, Range(NUMERIC)),
                        c.min_numeric, c.max_numeric)
        /\ WithinBounds(CountChars(password, Range(LOWERCASE)),
                        c.min_lower, c.max_lower)
        /\ WithinBounds(CountChars(password, Range(UPPERCASE)),
                        c.min_upper, c.max_upper)
        /\ WithinBounds(CountChars(password, Range(c.symbols)),
                        c.min_symbol, c.max_symbol)

\* C3: with exclude_ambiguous set, no returned password holds one of
\* 0, O, 1, l, I, |.
C3_NoAmbiguousCharacter ==
    (Returned /\ TheConstraints.exclude_ambiguous) =>
        \A n \in DOMAIN password : password[n] \notin AMBIGUOUS_CHARS

\* A password with a symbol was returned by a generator whose symbol set
\* holds an ambiguous character.
C3_Witness ==
    /\ Returned
    /\ TheConstraints.exclude_ambiguous
    /\ Range(TheConstraints.symbols) \cap AMBIGUOUS_CHARS # {}
    /\ Range(password) \cap Range(TheConstraints.symbols) # {}
    /\ Len(password) = MaxLen

\* The constraints the specification calls valid, sums as integers.
ValidConstraints(c) ==
    /\ ~MinAboveMax(c.min_numeric, c.max_numeric)
    /\ ~MinAboveMax(c.min_lower, c.max_lower)
    /\ ~MinAboveMax(c.min_upper, c.max_upper)
    /\ ~MinAboveMax(c.min_symbol, c.max_symbol)
    /\ c.min_length <= c.max_length
    /\ TrueTotalMin(c) <= c.min_length
    /\ TrueTotalMin(c) <= c.max_length

\* new(constraints) has returned, a generator or an error.
NewReturned == op = "generate" /\ pc \notin {"new", "panic"}

\* C4: new returns a generator if and only if the constraints are valid, and
\* in every other case it returns an error and no generator.
C4_NewIffValid ==
    NewReturned =>
        /\ ValidConstraints(constraints) => Constructed
        /\ ~ValidConstraints(constraints) => (~Constructed /\ pc = "rejected")

\* C5: random_range(bound) never faults for a bound > 0 and returns only
\* values r with 0 <= r < bound; random_range(0) returns 0 without reading
\* the randomness source, and random_range(1) returns 0.
C5_RandomRangeWithinBound ==
    op = "random_range" =>
        /\ arg > 0 => pc # "panic"
        /\ pc = "done" =>
            /\ arg > 0 => (0 <= result /\ result < arg)
            /\ arg \in {0, 1} => result = 0
            /\ arg = 0 => ~consulted

\* The values v that random_range(bound) accepts and returns as r.
AcceptedAs(bound, r) ==
    {o \in RandomRangeStep(bound) : o.kind = "ok" /\ o.val = r}

\* C6: for a bound in [1, MAX_U32] and limit = MAX_U32 - (MAX_U32 mod bound),
\* a drawn value v is accepted exactly when v < limit, it is returned as
\* v mod bound, and every r in [0, bound) is the image of exactly
\* limit / bound accepted values.
C6_RejectionSamplingUnbiased ==
    (op = "random_range" /\ arg \in 1..MAX_U32) =>
        LET limit == MAX_U32 - (MAX_U32 % arg) IN
        /\ pc = "done" => (value < limit /\ result = value % arg)
        /\ (pc = "random_range" /\ consulted) => value >= limit
        /\ \A v \in 0..MAX_U32 :
              (\E o \in RandomRangeStep(arg) : o.kind = "ok" /\ o.v = v) <=> v < limit
        /\ \A r \in 0..(arg - 1) :
              Cardinality(AcceptedAs(arg, r)) = limit \div arg

\* random_range(3) drew a value past the bound, accepted it and returned it
\* reduced.
C6_Witness ==
    /\ op = "random_range" /\ pc = "done"
    /\ arg = 3 /\ value = 5 /\ result = 2

\* s and t hold the same elements, each as many times.
SameElements(s, t) ==
    /\ Len(s) = Len(t)
    /\ \A x \in Range(s) \cup Range(t) : CountChars(s, {x}) = CountChars(t, {x})

\* C7: shuffle leaves the multiset of elements and the length of the slice
\* unchanged; an empty or single-element slice is left as it is, and no
\* randomness is read for it.
C7_ShufflePreservesElements ==
    op = "shuffle" =>
        /\ SameElements(password, input)
        /\ Len(input) <= 1 => (password = input /\ ~consulted)

\* A slice of the longest length was shuffled into another order.
C7_Witness ==
    /\ op = "shuffle" /\ pc = "done"
    /\ Len(input) = MaxShuffle
    /\ password # input

\* The values random_range(bound) can return.
ReturnedBy(bound) == {o.val : o \in {x \in RandomRangeStep(bound) : x.kind = "ok"}}

\* The draw sequences of a shuffle of n elements: one j for every index
\* n-1, ..., 1, each a value the draw at that index can return.
DrawSequences(n) ==
    {js \in [1..(n - 1) -> 0..(n - 1)] :
        \A idx \in 1..(n - 1) : js[idx] \in ReturnedBy(ShuffleBound(idx))}

RECURSIVE ShuffledFrom(_, _, _)
\* The slice after the loop ran from index idx down to 1 with the draws js.
ShuffledFrom(s, js, idx) ==
    IF idx < 1 THEN s ELSE ShuffledFrom(swap(s, idx, js[idx]), js, idx - 1)

Shuffled(s, js) == ShuffledFrom(s, js, Len(s) - 1)

Distinct(s) == \A m, n \in DOMAIN s : m # n => s[m] # s[n]

OrdersOf(s) ==
    {[n \in DOMAIN s |-> s[f[n]]] :
        f \in {g \in [DOMAIN s -> DOMAIN s] : \A m, n \in DOMAIN s : m # n => g[m] # g[n]}}

\* C8: on n distinct elements shuffle draws j = uniform(i + 1) for every
\* i = n-1, ..., 1 and swaps, and the draw sequences map one to one onto the
\* n! orders (stated for the lengths the model enumerates in full).
C8_ShuffleIsBijection ==
    (op = "shuffle" /\ Distinct(input)) =>
        /\ pc # "panic"
        /\ Len(input) <= MaxShuffle =>
            /\ \A js, ks \in DrawSequences(Len(input)) :
                  Shuffled(input, js) = Shuffled(input, ks) => js = ks
            /\ {Shuffled(input, js) : js \in DrawSequences(Len(input))}
                  = OrdersOf(input)
            /\ pc = "done" =>
                  \E js \in DrawSequences(Len(input)) : password = Shuffled(input, js)

\* A call of generate() ends in this step.
CallEnds == pc \notin {"done", "failed"} /\ pc' \in {"done", "failed"}

\* C9: randomness-source failures aside, two calls of generate() on the same
\* generator that selected the same length end alike: both succeed, or both
\* fail with the same error.
C9_OutcomeFixedByLength ==
    [][(/\ op = "generate"
        /\ CallEnds
        /\ last.kind \notin {"none", "io"}
        /\ last'.kind # "io"
        /\ last'.length = last.length) => last'.kind = last.kind]_vars

\* C10: with min_length = max_length, generate() never fails with the
\* 'cannot satisfy length requirement' error.
C10_UnsatisfiableOnlyForDrawnLength ==
    (op = "generate" /\ Constructed
        /\ TheConstraints.min_length = TheConstraints.max_length) =>
        ~(/\ pc = "failed"
          /\ err = "Cannot satisfy length requirement with given max constraints")

\* C11: when a read of the randomness source fails during generate(), the
\* call returns the I/O error and no password, whole or partial, and takes
\* no further step (no draw, retry or fallback) before it returns; and
\* fill_bytes returns Ok only when it filled the whole buffer.
C11_ReadFailureEndsCall ==
    [][op = "generate" =>
        /\ err' = "io" =>
              (pc' \in {"failed", "ready"} /\ password' = <<>> /\ last'.kind = "io")
        /\ (pc = "failed" /\ err = "io") => (pc' = "ready" /\ UNCHANGED consulted)
        /\ \A f \in FillOutcomes :
              fill_bytes(f) = "ok" <=> (f.opened /\ f.got = BUF_LEN)]_vars

\* A call of generate() that had read the source ended with the I/O error.
C11_Witness ==
    /\ op = "generate" /\ pc = "failed"
    /\ err = "io" /\ consulted
    /\ password = <<>>
    /\ last.length = MaxLen

\* A class that has characters to supply has no alphabet to draw them from.
EmptyClassNeeded == \E t \in 0..3 : CountOf(t) > 0 /\ CharsOf(t) = <<>>

\* C12: new returns a generator for valid constraints whatever the filtered
\* alphabets hold; and, read failures aside, the character selection of
\* generate() ends with the empty-alphabet error exactly when, after slot
\* distribution, a class with an empty filtered alphabet has a nonzero
\* working count.
C12_EmptyAlphabetDeferred ==
    [][op = "generate" =>
        /\ (pc = "new" /\ ValidConstraints(constraints)) => generator' # <<>>
        /\ (pc = "chars" /\ pc' # "chars" /\ err' # "io") =>
              (err' = "Character set is empty" <=> EmptyClassNeeded)]_vars

\* The words by which an error message can name the class of index t.
ClassWords(t) ==
    CASE t = 0 -> {"numeric", "number", "numbers", "digit", "digits"}
      [] t = 1 -> {"lower", "lowercase"}
      [] t = 2 -> {"upper", "uppercase"}
      [] t = 3 -> {"symbol", "symbols"}

\* C13: when the class being drawn has a nonzero count left and an empty
\* filtered alphabet, generate() fails with an error that names that class
\* and that differs from the 'cannot satisfy length requirement' error and
\* from a randomness-source error.
C13_EmptyAlphabetNamesClass ==
    [][(/\ op = "generate"
        /\ pc = "chars" /\ cls <= 3
        /\ k < CountOf(cls) /\ CharsOf(cls) = <<>>) =>
            /\ pc' = "failed"
            /\ err' \notin {"io", "Cannot satisfy length requirement with given max constraints"}
            /\ Words(err') \cap ClassWords(cls) # {}]_vars

\* C14: every character of a returned password belongs to the filtered
\* alphabet of one of the four classes, and every character of a class's
\* non-empty filtered alphabet can be drawn for that class.
C14_CharactersFromAlphabets ==
    (op = "generate" /\ Constructed) =>
        LET c == TheConstraints
            all == Range(LOWERCASE) \cup Range(UPPERCASE) \cup Range(NUMERIC)
                      \cup Range(c.symbols)
            filtered == IF c.exclude_ambiguous THEN all \ AMBIGUOUS_CHARS ELSE all
        IN /\ pc = "done" => \A n \in DOMAIN password : password[n] \in filtered
           /\ \A t \in 0..3 :
                 CharsOf(t) # <<>> =>
                    {CharsOf(t)[r + 1] : r \in ReturnedBy(Len(CharsOf(t)))}
                        = Range(CharsOf(t))

\* C15: no step of a call of generate(), by either of two callers whose
\* calls interleave, changes the generator: its constraints and its four
\* alphabets stay as new built them; and every call starts from the same
\* locals, so what it can do depends on the generator alone.
C15_GeneratorNeverModified ==
    [][op = "generate" =>
        /\ Constructed => generator' = generator
        /\ generator' # <<>> =>
              /\ generator'[1].constraints = constraints
              /\ \A t \in 0..3 :
                    LET all == CASE t = 0 -> NUMERIC [] t = 1 -> LOWERCASE
                                 [] t = 2 -> UPPERCASE [] t = 3 -> constraints.symbols
                        alphabet == CASE t = 0 -> generator'[1].numeric_chars
                                      [] t = 1 -> generator'[1].lowercase_chars
                                      [] t = 2 -> generator'[1].uppercase_chars
                                      [] t = 3 -> generator'[1].symbol_chars
                    IN alphabet = filter_ambiguous(constraints.exclude_ambiguous, all)
        /\ (pc = "ready" /\ pc' = "length" /\ parked' = parked) =>
              Locals' = [FreshCaller EXCEPT !.pc = "length"]]_vars

\* Both callers have a call of generate() under way, one of them past
\* character selection, the other stopped in the middle of its own.
C15_Witness ==
    /\ op = "generate" /\ parked.pc # "none"
    /\ pc = "shuffle" /\ Len(password) = TheConstraints.max_length
    /\ parked.pc = "chars" /\ parked.password # <<>>

\* The minimum and the maximum configured for the class of index t.
MinOf(c, t) ==
    CASE t = 0 -> c.min_numeric [] t = 1 -> c.min_lower
      [] t = 2 -> c.min_upper [] t = 3 -> c.min_symbol

MaxOf(c, t) ==
    CASE t = 0 -> c.max_numeric [] t = 1 -> c.max_lower
      [] t = 2 -> c.max_upper [] t = 3 -> c.max_symbol

\* The working counts in the order numeric, lower, upper, symbol.
Counts == <<numeric_count, lower_count, upper_count, symbol_count>>

\* C16: the working counts start at the configured minimums (0 if unset);
\* an iteration of the distribution loop adds one to the count of exactly
\* one class that has no maximum or is below it, and takes one from
\* remaining; and in every state of the loop each count is at least its
\* minimum, at most its maximum when one is set, and the four counts plus
\* remaining make the selected length.
C16_SlotDistributionInvariant ==
    [][op = "generate" =>
        LET c == TheConstraints IN
        /\ (pc = "base" /\ pc' = "slots") =>
              \A t \in 0..3 : Counts'[t + 1] = unwrap_or(MinOf(c, t), 0)
        /\ (pc = "slots" /\ pc' = "slots" /\ Counts' # Counts) =>
              /\ \E t \in 0..3 :
                    /\ IsSome(MaxOf(c, t)) => Counts[t + 1] < MaxOf(c, t)[1]
                    /\ Counts'[t + 1] = Counts[t + 1] + 1
                    /\ \A u \in (0..3) \ {t} : Counts'[u + 1] = Counts[u + 1]
              /\ remaining' = remaining - 1
        /\ pc' = "slots" =>
              /\ \A t \in 0..3 :
                    WithinBounds(Counts'[t + 1], MinOf(c, t), MaxOf(c, t))
              /\ Counts'[1] + Counts'[2] + Counts'[3] + Counts'[4] + remaining'
                    = length']_vars

MaximumsBelow(c, n) ==
    /\ \A t \in 0..3 : IsSome(MaxOf(c, t))
    /\ MaxOf(c, 0)[1] + MaxOf(c, 1)[1] + MaxOf(c, 2)[1] + MaxOf(c, 3)[1] < n

\* C18: read failures aside, slot distribution ends with the 'cannot satisfy
\* length requirement' error if and only if all four classes have a maximum
\* and the maximums sum to less than the selected length (so never when a
\* class has no maximum); the error is returned by the first iteration that
\* finds no class below its maximum, and the length is not drawn again.
C18_UnsatisfiableMaxCharacterised ==
    [][(op = "generate" /\ pc = "slots") =>
        LET c == TheConstraints
            unsatisfiable ==
                err' = "Cannot satisfy length requirement with given max constraints"
        IN /\ (pc' \in {"chars", "failed"} /\ err' # "io") =>
                 (unsatisfiable <=> MaximumsBelow(c, length))
           /\ (remaining > 0
                 /\ \A t \in 0..3 :
                       IsSome(MaxOf(c, t)) /\ Counts[t + 1] >= MaxOf(c, t)[1]) =>
                 (pc' = "failed" /\ unsatisfiable)
           /\ pc' # "length"]_vars

\* C19: whatever the four minimums, in the whole usize range, when
\* validate() accepts the constraints (new returns a generator) the sum of
\* the minimums as an integer is at most min_length, which is at most
\* max_length; so generate() never starts with base counts that exceed the
\* selected length.
C19_ValidationSoundOnMachineIntegers ==
    (op = "generate" /\ Constructed) =>
        LET c == TheConstraints IN
        /\ TrueTotalMin(c) <= c.min_length
        /\ c.min_length <= c.max_length
        /\ pc = "slots" =>
              numeric_count + lower_count + upper_count + symbol_count <= length

\* The class bounds of an options or constraints value, in one order.
ClassBounds(o) ==
    <<o.min_numeric, o.max_numeric, o.min_lower, o.max_lower,
      o.min_upper, o.max_upper, o.min_symbol, o.max_symbol>>

\* C20: every option the user gave on the command line determines the
\* constraints main builds and the count it generates, whatever the loaded
\* profile holds: the class bounds, -l as both length bounds, --min-length,
\* --max-length, --symbols, --exclude-ambiguous and --count.
C20_CommandLineTakesPrecedence ==
    (op = "main" /\ pc = "built") =>
        /\ \A n \in 1..8 :
              IsSome(ClassBounds(cmdline)[n]) =>
                 ClassBounds(constraints)[n] = ClassBounds(cmdline)[n]
        /\ IsSome(cmdline.length) =>
              /\ constraints.min_length = cmdline.length[1]
              /\ constraints.max_length = cmdline.length[1]
        /\ IsSome(cmdline.min_length) => constraints.min_length = cmdline.min_length[1]
        /\ IsSome(cmdline.max_length) => constraints.max_length = cmdline.max_length[1]
        /\ IsSome(cmdline.symbols) => constraints.symbols = cmdline.symbols[1]
        /\ IsSome(cmdline.exclude_ambiguous) => constraints.exclude_ambiguous
        /\ IsSome(cmdline.count) => count = cmdline.count[1]

\* A call of generate() is under way; it has returned a password or an error.
Called == op = "generate" /\ pc = "length"

Ended == pc \in {"done", "failed"}

\* C21: with a randomness source whose reads return and that is fair, every
\* call of generate() on a constructed generator eventually returns a
\* password or an error; the slot-distribution loop has run at most
\* (length - sum of the minimums) iterations, each adding one to one count,
\* and the shuffle at most (length - 1) swaps, one for each index passed.
C21_GenerateTerminates ==
    /\ [](op = "generate" /\ pc = "slots" =>
            (numeric_count + lower_count + upper_count + symbol_count)
                - TrueTotalMin(TheConstraints)
              <= length - TrueTotalMin(TheConstraints))
    /\ [](op = "generate" /\ pc = "shuffle" /\ password # <<>> =>
            (Len(password) - 1) - i <= Len(password) - 1)
    /\ (Called ~> Ended)

====
